---- MODULE Spec2Model ----
(***************************************************************************)
(* A model of tensorflow/lite/delegates/gpu/common/task/gpu_operation.cc:  *)
(* kernel fusion (AddOperation), code assembly (AssembleCode), the grid    *)
(* geometry helpers and the move assignment of GPUOperation.               *)
(*                                                                         *)
(* Kernel text is a sequence of tokens: literal text, or a reference       *)
(* "args.<name>" to a name of the argument registry.  Names are strings,   *)
(* and the link postfix is really appended to them.                        *)
(***************************************************************************)
EXTENDS Integers, Sequences, FiniteSets, TLC

VARIABLES host, hist,
          geom,
          gridq,
          mv

vars == <<host, hist, geom, gridq, mv>>

-----------------------------------------------------------------------------
(* Bounds of the model.                                                    *)

\* AddOperation calls made on the host
MaxLinks == 2
\* explicit Add{Src,Dst}* registrations per name list of the host
MaxRegs == 1
\* AssembleCode calls made on the host
MaxAssemble == 2
\* largest grid extent and largest work-group extent per axis
MaxGrid == 3
MaxWg == 2
\* largest value of a launch scalar of a moved operation
MaxScalar == 2
\* SetDst calls made on the queried operation
MaxSets == 2
\* move assignments made
MaxMoves == 3

-----------------------------------------------------------------------------
(* Kernel text.                                                            *)

Txt(s) == [k |-> "t", v |-> s]
Arg(n) == [k |-> "a", v |-> n]

\* "{\n" + code + "\n}\n"
Block(code) == <<Txt("{\n")>> \o code \o <<Txt("\n}\n")>>

GetElementWiseCode(check_src_slices) ==
  <<Txt("MAIN_FUNCTION(\n"), Txt("$0) {\n"),
    Txt("  int X = GLOBAL_ID_0;\n"),
    Txt("  int Y = GLOBAL_ID_1;\n"),
    Txt("  int Z = GLOBAL_ID_2;\n"),
    Txt("  if (X >= "), Arg("dst_tensor"), Txt(".Width() || Y >= "),
    Arg("dst_tensor"), Txt(".Height() || Z >= "),
    Arg("dst_tensor"), Txt(".Slices()) return; \n")>>
  \o (IF check_src_slices
        THEN <<Txt("  "), Arg("src_tensor"), Txt("::type src = "),
               Arg("src_tensor"), Txt("::zero_value;\n"),
               Txt("  if (Z < "), Arg("src_tensor"), Txt(".Slices()) {\n"),
               Txt("    src = "), Arg("src_tensor"), Txt(".Read(X, Y, Z);\n"),
               Txt("  }\n")>>
        ELSE <<Txt("  "), Arg("src_tensor"), Txt("::type src = "),
               Arg("src_tensor"), Txt(".Read(X, Y, Z);\n")>>)
  \o <<Txt("  "), Arg("dst_tensor"), Txt(".Write(src, X, Y, Z);\n"),
       Txt("} \n")>>

-----------------------------------------------------------------------------
(* Tensor descriptors and the operation definition.                        *)

\* a descriptor: its identity, whether it has the BATCH axis, and its
\* "BatchedWidth" state variable
TensorDesc(id, batch) == [id |-> id, batch |-> batch, bw |-> FALSE]
BufferDesc == [id |-> 200, batch |-> FALSE, bw |-> FALSE]
Texture2DDesc == [id |-> 201, batch |-> FALSE, bw |-> FALSE]
\* what a read past the end of a descriptor vector may yield
GarbageDesc == [id |-> 999, batch |-> FALSE, bw |-> FALSE]

IsBatchSupported(def) ==
  \/ \E i \in DOMAIN def.src_tensors : def.src_tensors[i].batch
  \/ \E i \in DOMAIN def.dst_tensors : def.dst_tensors[i].batch

\* src_desc->SetStateVar("BatchedWidth", "true")
SetBatchedWidth(desc) == [desc EXCEPT !.bw = TRUE]

-----------------------------------------------------------------------------
(* The argument registry (Arguments): named object references and          *)
(* constant objects.                                                       *)

RefNames(args) == {r.name : r \in args.refs}

\* object_refs_[name] = {access, descriptor}; of the descriptor the registry
\* entry keeps the state variable "BatchedWidth"
AddObjectRef(args, name, access, desc) ==
  [args EXCEPT !.refs = {r \in @ : r.name # name}
                          \cup {[name |-> name, access |-> access, bw |-> desc.bw]}]

RenameArgs(postfix, code) ==
  [i \in DOMAIN code |->
     IF code[i].k = "a" THEN Arg(code[i].v \o postfix) ELSE code[i]]

Qualified(r, postfix) == [r EXCEPT !.name = @ \o postfix]

\* the references of `other` whose postfixed name is already bound
MergeConflicts(args, other, postfix) ==
  {r \in other.refs : (r.name \o postfix) \in RefNames(args)}

MergeOk(args, other, postfix) == MergeConflicts(args, other, postfix) = {}

\* `args` after the bindings of `other` were moved into it under the postfix
Merged(args, other, postfix) ==
  [args EXCEPT !.refs = @ \cup {Qualified(r, postfix) : r \in other.refs},
               !.objs = @ \cup {Qualified(o, postfix) : o \in other.objs}]

\* sum of GetSizeInBytes() over GetObjects()
RECURSIVE SumSizes(_)
SumSizes(objs) ==
  IF objs = {} THEN 0
  ELSE LET o == CHOOSE x \in objs : TRUE
       IN  o.size + SumSizes(objs \ {o})

\* the text Compile stores back into *code
Compiled(code, key, body) == <<[k |-> "compiled", v |-> key]>> \o code \o body

-----------------------------------------------------------------------------
(* GPUOperation objects.                                                   *)

\* GPUOperation::GPUOperation(const OperationDef& definition), with the
\* code, flags and constant objects its creator sets before it is used
GPUOperation(definition, code, elementwise, linkable, check, objs) ==
  [definition_ |-> definition,
   code_ |-> code,
   args_ |-> [refs |-> {}, objs |-> objs],
   elementwise_ |-> elementwise,
   linkable_ |-> linkable,
   check_src_channels_size_ |-> check,
   const_args_size_ |-> 0,
   src_tensors_names_ |-> <<>>,
   dst_tensors_names_ |-> <<>>,
   linkable_count_ |-> 0,
   elementwise_code_ |-> <<>>]

\* AddSrcTensor, AddSrcBuffer, AddSrcTexture2D
PushSrc(op, name, desc) ==
  [op EXCEPT !.src_tensors_names_ = Append(@, name),
             !.args_ = AddObjectRef(@, name, "READ", desc)]

\* AddDstTensor
PushDst(op, name, desc) ==
  [op EXCEPT !.dst_tensors_names_ = Append(@, name),
             !.args_ = AddObjectRef(@, name, "WRITE", desc)]

-----------------------------------------------------------------------------
(* The inputs the model draws from.                                        *)

HostDef(batch) ==
  [src_tensors |-> <<TensorDesc(100, batch)>>,
   dst_tensors |-> <<TensorDesc(101, batch)>>]
HostCode == <<Txt("in_out_value += "), Arg("w"), Txt(";")>>
HostObjs == {[name |-> "w", size |-> 16]}
HostSrcNames == {"src_tensor", "a_link1"}
HostDstNames == {"dst_tensor"}
\* <<elementwise_, check_src_channels_size_, batch axis>>; a host that is not
\* elementwise reads neither of the other two
HostVariants == {<<FALSE, FALSE, FALSE>>} \cup ({TRUE} \X BOOLEAN \X BOOLEAN)

ChildDef(nextra) ==
  [src_tensors |-> [i \in 1..(nextra + 1) |-> TensorDesc(i - 1, FALSE)],
   dst_tensors |-> <<TensorDesc(50, FALSE)>>]
ChildCode == <<Txt("in_out_value = max(in_out_value, "), Arg("a"), Txt(");")>>
SrcDescs == {TensorDesc(7, FALSE), BufferDesc, Texture2DDesc}

\* the operations offered for linking: constructed with one or two source
\* descriptors, given no or one extra source (a tensor, a buffer or a 2D
\* texture) and no or one destination, linkable or not
RECURSIVE WithSrcs(_, _)
WithSrcs(op, descs) ==
  IF descs = <<>> THEN op
  ELSE WithSrcs(PushSrc(op, "a", Head(descs)), Tail(descs))

Children ==
  {LET op == WithSrcs(GPUOperation(ChildDef(nextra), ChildCode, TRUE, linkable, FALSE, {}),
                      srcs)
   IN  IF dst THEN PushDst(op, "d", TensorDesc(8, FALSE)) ELSE op :
     nextra \in {0, 1}, srcs \in {<<>>} \cup {<<d>> : d \in SrcDescs},
     dst \in BOOLEAN, linkable \in BOOLEAN}

-----------------------------------------------------------------------------
(* History: what the caller did, kept for stating the properties.          *)

InitHist ==
  [own |-> {},            \* names the host was given by Add{Src,Dst}*
   nsrc |-> 0,            \* explicit source registrations on the host
   ndst |-> 0,            \* explicit destination registrations on the host
   fused |-> <<>>,        \* one entry per AddOperation call
   compiles |-> <<>>,     \* one entry per AssembleCode call
   crashed |-> FALSE]     \* the process was ended by a read out of bounds

Running == ~hist.crashed

\* AssembleCode calls made so far
Assembled == Len(hist.compiles)

\* the host is given its arguments before anything is linked into it and
\* before it is assembled
Registering == Running /\ host.linkable_count_ = 0 /\ Assembled = 0

NoteSrc(name) == [hist EXCEPT !.own = @ \cup {name}, !.nsrc = @ + 1]
NoteDst(name) == [hist EXCEPT !.own = @ \cup {name}, !.ndst = @ + 1]

-----------------------------------------------------------------------------
(* Registrations on the host.                                              *)

AddSrcTensor ==
  /\ Registering /\ hist.nsrc < MaxRegs
  /\ \E name \in HostSrcNames :
       /\ host' = PushSrc(host, name, TensorDesc(7, FALSE))
       /\ hist' = NoteSrc(name)
  /\ UNCHANGED <<geom, gridq, mv>>

AddSrcBuffer ==
  /\ Registering /\ hist.nsrc < MaxRegs
  /\ \E name \in HostSrcNames :
       /\ host' = PushSrc(host, name, BufferDesc)
       /\ hist' = NoteSrc(name)
  /\ UNCHANGED <<geom, gridq, mv>>

AddSrcTexture2D ==
  /\ Registering /\ hist.nsrc < MaxRegs
  /\ \E name \in HostSrcNames :
       /\ host' = PushSrc(host, name, Texture2DDesc)
       /\ hist' = NoteSrc(name)
  /\ UNCHANGED <<geom, gridq, mv>>

AddDstTensor ==
  /\ Registering /\ hist.ndst < MaxRegs
  /\ \E name \in HostDstNames :
       /\ host' = PushDst(host, name, TensorDesc(8, FALSE))
       /\ hist' = NoteDst(name)
  /\ UNCHANGED <<geom, gridq, mv>>

-----------------------------------------------------------------------------
(* GPUOperation::AddOperation.                                             *)

UniquePostfix(linkable_count) == "_link" \o ToString(linkable_count)

\* the block put in front of the accumulated code
LinkCodeInFront(h, ch) ==
  LET postfix == UniquePostfix(h.linkable_count_ + 1)
  IN  [h EXCEPT !.linkable_count_ = @ + 1,
                !.elementwise_code_ = Block(RenameArgs(postfix, ch.code_)) \o @]

\* linkable_count_ += 1; elementwise_code_ += "{\n" + code + "\n}\n"
LinkCode(h, ch) ==
  LET postfix == UniquePostfix(h.linkable_count_ + 1)
  IN  [h EXCEPT !.linkable_count_ = @ + 1,
                !.elementwise_code_ = @ \o Block(RenameArgs(postfix, ch.code_))]

\* every index i + 1 of the first loop is inside definition_.src_tensors
SrcReadsInBounds(ch) ==
  Len(ch.src_tensors_names_) + 1 <= Len(ch.definition_.src_tensors)

\* the first loop; `past` is what a read past the end yields
AdoptSrc(h, ch, postfix, past) ==
  LET n == Len(ch.src_tensors_names_)
      descs == ch.definition_.src_tensors
  IN  [h EXCEPT
         !.definition_.src_tensors =
            @ \o [i \in 1..n |-> IF i + 1 <= Len(descs) THEN descs[i + 1] ELSE past],
         !.src_tensors_names_ =
            @ \o [i \in 1..n |-> ch.src_tensors_names_[i] \o postfix]]

\* the second loop started at index 1
AdoptDstSkipFirst(h, ch, postfix) ==
  [h EXCEPT !.dst_tensors_names_ =
     @ \o [i \in 1..(Len(ch.dst_tensors_names_) - 1) |->
             ch.dst_tensors_names_[i + 1] \o postfix]]

\* the second loop
AdoptDst(h, ch, postfix) ==
  [h EXCEPT !.dst_tensors_names_ =
     @ \o [i \in 1..Len(ch.dst_tensors_names_) |-> ch.dst_tensors_names_[i] \o postfix]]

NoteFused(ch, status) ==
  [hist EXCEPT
     !.fused = Append(@, [idx |-> host.linkable_count_ + 1,
                          names |-> RefNames(ch.args_),
                          ndst |-> Len(ch.dst_tensors_names_),
                          status |-> status]),
     !.crashed = (status = "crash")]

AddOperation(ch) ==
  /\ Running /\ Assembled = 0
  /\ host.linkable_count_ < MaxLinks
  /\ LET postfix == UniquePostfix(host.linkable_count_ + 1)
         h1 == LinkCode(host, ch)
         conflicts == MergeConflicts(host.args_, ch.args_, postfix)
         h2 == [h1 EXCEPT !.args_ = Merged(@, ch.args_, postfix)]
     IN  \/ /\ conflicts # {}
            /\ \E part \in SUBSET (ch.args_.refs \ conflicts) :
                 host' = [h1 EXCEPT !.args_ =
                            Merged(@, [ch.args_ EXCEPT !.refs = part], postfix)]
            /\ hist' = NoteFused(ch, "error")
         \/ /\ conflicts = {}
            /\ SrcReadsInBounds(ch)
            /\ host' = AdoptDst(AdoptSrc(h2, ch, postfix, GarbageDesc), ch, postfix)
            /\ hist' = NoteFused(ch, "ok")
         \/ /\ conflicts = {}
            /\ ~SrcReadsInBounds(ch)
            /\ host' = AdoptDst(AdoptSrc(h2, ch, postfix, GarbageDesc), ch, postfix)
            /\ hist' = NoteFused(ch, "ok")
         \/ /\ conflicts = {}
            /\ ~SrcReadsInBounds(ch)
            /\ host' = h2
            /\ hist' = NoteFused(ch, "crash")
  /\ UNCHANGED <<geom, gridq, mv>>

Link == \E ch \in Children : AddOperation(ch)

-----------------------------------------------------------------------------
(* GPUOperation::AssembleCode.                                             *)

\* the branch taken when elementwise_ is set
WrapElementwise(h) ==
  LET batch == IsBatchSupported(h.definition_)
      src_desc == IF batch THEN SetBatchedWidth(h.definition_.src_tensors[1])
                           ELSE h.definition_.src_tensors[1]
      dst_desc == IF batch THEN SetBatchedWidth(h.definition_.dst_tensors[1])
                           ELSE h.definition_.dst_tensors[1]
  IN  [h EXCEPT
         !.src_tensors_names_ = <<"src_tensor">> \o @,
         !.dst_tensors_names_ = <<"dst_tensor">> \o @,
         !.args_ = AddObjectRef(AddObjectRef(@, "src_tensor", "READ", src_desc),
                                "dst_tensor", "WRITE", dst_desc),
         !.elementwise_code_ = Block(h.code_) \o @,
         !.code_ = GetElementWiseCode(h.check_src_channels_size_)]

CalculateConstArgsSize(h) ==
  [h EXCEPT !.const_args_size_ = SumSizes(h.args_.objs)]

\* args_.Compile succeeded: the text is stored back into code_
CompileOk(h, key) ==
  CalculateConstArgsSize([h EXCEPT !.code_ = Compiled(@, key, h.elementwise_code_)])

NoteCompile(h, key, status) ==
  [hist EXCEPT
     !.compiles = Append(@, [key |-> key, body |-> h.elementwise_code_,
                             code |-> h.code_, status |-> status]),
     !.crashed = (status = "crash")]

AssembleCode ==
  /\ Running /\ Assembled < MaxAssemble
  /\ LET h1 == IF host.elementwise_ THEN WrapElementwise(host) ELSE host
         has == Len(h1.dst_tensors_names_) > 0
         key == IF has THEN h1.dst_tensors_names_[1] ELSE ""
     IN  \/ /\ has
            /\ host' = CompileOk(h1, key)
            /\ hist' = NoteCompile(h1, key, "ok")
         \/ /\ has
            /\ host' = h1
            /\ hist' = NoteCompile(h1, key, "error")
         \/ /\ ~has
            /\ host' = h1
            /\ hist' = NoteCompile(h1, key, "crash")
         \/ /\ ~has
            /\ host' = CompileOk(h1, key)
            /\ hist' = NoteCompile(h1, key, "ok")
         \/ /\ ~has
            /\ host' = h1
            /\ hist' = NoteCompile(h1, key, "error")
  /\ UNCHANGED <<geom, gridq, mv>>

-----------------------------------------------------------------------------
(* The fusion and assembly specification.                                  *)

Idle == geom = 0 /\ gridq = 0 /\ mv = 0

Init ==
  /\ \E v \in HostVariants :
       host = GPUOperation(HostDef(v[3]), HostCode, v[1], FALSE, v[2], HostObjs)
  /\ hist = InitHist
  /\ Idle

Next ==
  \/ AddSrcTensor
  \/ AddSrcBuffer
  \/ AddSrcTexture2D
  \/ AddDstTensor
  \/ Link
  \/ AssembleCode

Spec == Init /\ [][Next]_vars

-----------------------------------------------------------------------------
(* Properties of fusion and assembly.                                      *)

FusedOk == {i \in DOMAIN hist.fused : hist.fused[i].status = "ok"}
AllFusedOk == FusedOk = DOMAIN hist.fused

RECURSIVE SumOver(_, _)
SumOver(f, idxs) ==
  IF idxs = {} THEN 0
  ELSE LET i == CHOOSE x \in idxs : TRUE
       IN  f[i] + SumOver(f, idxs \ {i})

\* the names a host has of its own: those it was given, and the implicit
\* pair once an elementwise host was assembled
OwnNames ==
  hist.own \cup (IF host.elementwise_ /\ Assembled > 0
                   THEN {"src_tensor", "dst_tensor"} ELSE {})
OwnDstCount == hist.ndst + (IF host.elementwise_ THEN Assembled ELSE 0)

\* "_link<i>" written out
LinkSuffix(i) ==
  CASE i = 1 -> "_link1" [] i = 2 -> "_link2" [] i = 3 -> "_link3"
    [] i = 4 -> "_link4" [] OTHER -> "_link?"

FusedNames(i) == {n \o LinkSuffix(hist.fused[i].idx) : n \in hist.fused[i].names}

\* C1: a second AssembleCode call on an operation is rejected: it inserts no
\* second implicit name, does not wrap the code again and does not run the
\* registry's compile step again.
C1_SecondAssembleRejected ==
  [][(Assembled >= 1 /\ AssembleCode) =>
       /\ host'.src_tensors_names_ = host.src_tensors_names_
       /\ host'.dst_tensors_names_ = host.dst_tensors_names_
       /\ host'.elementwise_code_ = host.elementwise_code_
       /\ host'.code_ = host.code_
       /\ hist'.compiles = hist.compiles]_vars

\* C2: when the registry merge inside AddOperation fails, the error is returned
\* and the host's link count, fused code, name lists and descriptor list are
\* what they were before the call.
C2_FailedMergeLeavesHost ==
  [][\A ch \in Children :
       (AddOperation(ch)
          /\ ~MergeOk(host.args_, ch.args_, LinkSuffix(host.linkable_count_ + 1))) =>
         /\ hist'.fused[Len(hist'.fused)].status = "error"
         /\ host'.linkable_count_ = host.linkable_count_
         /\ host'.elementwise_code_ = host.elementwise_code_
         /\ host'.src_tensors_names_ = host.src_tensors_names_
         /\ host'.dst_tensors_names_ = host.dst_tensors_names_
         /\ host'.definition_ = host.definition_]_vars

\* C3: when the compile step fails inside AssembleCode, the error is returned,
\* code_ still holds the value it had before the call and const_args_size_ is
\* not computed.
C3_FailedCompilePublishesNothing ==
  [][(AssembleCode /\ hist'.compiles[Len(hist'.compiles)].status = "error") =>
       /\ host'.code_ = host.code_
       /\ host'.const_args_size_ = host.const_args_size_]_vars

\* C4: for a host with one destination name of its own and fusions that all
\* succeeded, the destination-name list has 1 plus the children's destination
\* names, and the registry's names are exactly the host's own names and each
\* child's names under its "_link<i>" suffix, with no two of them equal.
C4_FusedNamesDisjoint ==
  AllFusedOk =>
    /\ OwnDstCount = 1 =>
         Len(host.dst_tensors_names_)
           = 1 + SumOver([i \in DOMAIN hist.fused |-> hist.fused[i].ndst],
                         DOMAIN hist.fused)
    /\ RefNames(host.args_)
         = OwnNames \cup UNION {FusedNames(i) : i \in DOMAIN hist.fused}
    /\ Cardinality(RefNames(host.args_))
         = Cardinality(OwnNames)
           + SumOver([i \in DOMAIN hist.fused |-> Cardinality(hist.fused[i].names)],
                     DOMAIN hist.fused)

\* two children with colliding base names were fused into a host that has
\* a destination and a source of its own
C4_Witness ==
  /\ AllFusedOk /\ Len(hist.fused) = 2 /\ OwnDstCount = 1
  /\ hist.fused[1].names = {"a", "d"} /\ hist.fused[2].names = {"a", "d"}
  /\ "a_link1" \in RefNames(host.args_) /\ "a_link2" \in RefNames(host.args_)
  /\ "src_tensor" \in hist.own
  /\ Len(host.dst_tensors_names_) = 3

\* C5: a successful AddOperation adopts exactly the child's source
\* descriptors at positions 1..n-1, with the matching suffixed names, and reads
\* no descriptor past the end of the child's list.
C5_AdoptsDeclaredSources ==
  [][\A ch \in Children :
       (AddOperation(ch) /\ hist'.fused[Len(hist'.fused)].status = "ok") =>
         LET n == Len(ch.definition_.src_tensors)
         IN  /\ SrcReadsInBounds(ch)
             /\ host'.definition_.src_tensors
                  = host.definition_.src_tensors \o SubSeq(ch.definition_.src_tensors, 2, n)
             /\ Len(host'.src_tensors_names_)
                  = Len(host.src_tensors_names_) + (n - 1)]_vars

ChildBlock(i) ==
  <<Txt("{\n"), Txt("in_out_value = max(in_out_value, "),
    Arg("a" \o LinkSuffix(i)), Txt(");"), Txt("\n}\n")>>

RECURSIVE ChildBlocks(_)
ChildBlocks(k) == IF k = 0 THEN <<>> ELSE ChildBlocks(k - 1) \o ChildBlock(k)

OwnBlock ==
  <<Txt("{\n"), Txt("in_out_value += "), Arg("w"), Txt(";"), Txt("\n}\n")>>

Occurrences(seq, x) == Cardinality({i \in DOMAIN seq : seq[i] = x})

\* the case of C6: an elementwise host that was not itself given the implicit
\* names, k fusions that all succeeded, then one AssembleCode call
C6_Case ==
  /\ host.elementwise_ /\ AllFusedOk /\ Assembled = 1
  /\ hist.own \cap {"src_tensor", "dst_tensor"} = {}

C7_NonLinkableRejected ==
  [][\A ch \in Children : (~ch.linkable_ /\ AddOperation(ch)) => host' = host]_vars

-----------------------------------------------------------------------------
(* Grid geometry: GetWorkGroupsCountInternal and its two callers.  An int3 *)
(* is a triple; component i of the source is element i + 1 here.           *)

DivideRoundUp(n, divisor) ==
  (n \div divisor) + (IF n % divisor = 0 THEN 0 ELSE 1)

\* dimension 2 with the two stored counts taken in the order stored
GetWorkGroupsCountUnordered(grid_dimension, grid_size, work_group_size, work_group_launch_order, junk) ==
  IF grid_dimension = 1
    THEN <<DivideRoundUp(grid_size[1], work_group_size[1]), 1, 1>>
  ELSE IF grid_dimension = 2
    THEN <<DivideRoundUp(grid_size[1], work_group_size[1]),
           DivideRoundUp(grid_size[2], work_group_size[2]), 1>>
  ELSE LET wgs == <<DivideRoundUp(grid_size[1], work_group_size[1]),
                    DivideRoundUp(grid_size[2], work_group_size[2]),
                    DivideRoundUp(grid_size[3], work_group_size[3])>>
       IN  <<wgs[work_group_launch_order[1] + 1],
             wgs[work_group_launch_order[2] + 1],
             wgs[work_group_launch_order[3] + 1]>>

\* `junk` is the z component of the local wgs, which dimension 2 never sets
GetWorkGroupsCountInternal(grid_dimension, grid_size, work_group_size, work_group_launch_order, junk) ==
  IF grid_dimension = 1
    THEN <<DivideRoundUp(grid_size[1], work_group_size[1]), 1, 1>>
  ELSE IF grid_dimension = 2
    THEN LET wgs == <<DivideRoundUp(grid_size[1], work_group_size[1]),
                      DivideRoundUp(grid_size[2], work_group_size[2]),
                      junk>>
         IN  <<wgs[work_group_launch_order[1] + 1],
               wgs[work_group_launch_order[2] + 1],
               1>>
  ELSE LET wgs == <<DivideRoundUp(grid_size[1], work_group_size[1]),
                    DivideRoundUp(grid_size[2], work_group_size[2]),
                    DivideRoundUp(grid_size[3], work_group_size[3])>>
       IN  <<wgs[work_group_launch_order[1] + 1],
             wgs[work_group_launch_order[2] + 1],
             wgs[work_group_launch_order[3] + 1]>>

Extents(max) == (1..max) \X (1..max) \X (1..max)
LaunchOrders ==
  {o \in (0..2) \X (0..2) \X (0..2) : {o[1], o[2], o[3]} = {0, 1, 2}}
\* values an unset int may hold
JunkValues == {0, 7}
\* what the tuning collaborator may return
Candidates == {<<>>, <<<<1, 1, 1>>>>, <<<<MaxWg, 1, 1>>, <<1, MaxWg, MaxWg>>>>}

RecalculateWorkGroupsCount ==
  /\ ~geom.recalculated
  /\ \E junk \in JunkValues :
       geom' = [geom EXCEPT
                  !.work_groups_count_ =
                     GetWorkGroupsCountInternal(geom.grid_dimension_, geom.grid_size_,
                                                geom.work_group_size_,
                                                geom.work_group_launch_order_, junk),
                  !.recalculated = TRUE]
  /\ UNCHANGED <<host, hist, gridq, mv>>

GetPossibleDispatches ==
  /\ ~geom.enumerated
  /\ \E work_group_sizes \in Candidates, junk \in JunkValues :
       geom' = [geom EXCEPT
                  !.dispatches =
                     [i \in DOMAIN work_group_sizes |->
                        [work_group_size |-> work_group_sizes[i],
                         work_groups_count |->
                           GetWorkGroupsCountInternal(geom.grid_dimension_,
                                                      geom.grid_size_,
                                                      work_group_sizes[i],
                                                      geom.work_group_launch_order_,
                                                      junk)]],
                  !.enumerated = TRUE]
  /\ UNCHANGED <<host, hist, gridq, mv>>

InitGeom ==
  /\ \E d \in 1..3, g \in Extents(MaxGrid), w \in Extents(MaxWg), o \in LaunchOrders :
       geom = [grid_dimension_ |-> d, grid_size_ |-> g, work_group_size_ |-> w,
               work_group_launch_order_ |-> o,
               work_groups_count_ |-> <<0, 0, 0>>, dispatches |-> <<>>,
               recalculated |-> FALSE, enumerated |-> FALSE]
  /\ host = 0 /\ hist = 0 /\ gridq = 0 /\ mv = 0

NextGeom == RecalculateWorkGroupsCount \/ GetPossibleDispatches

SpecGeom == InitGeom /\ [][NextGeom]_vars

\* the least c with c * b >= a
CeilDiv(a, b) == CHOOSE c \in 0..a : c * b >= a /\ \A e \in 0..a : e * b >= a => c <= e

\* the launch orders C8 is about: for dimension 2 the first two entries
\* permute the two axes
OrderOfAxes(d, o) == d = 2 => {o[1], o[2]} = {0, 1}

ExpectedCount(d, g, w, o) ==
  LET r == <<CeilDiv(g[1], w[1]), CeilDiv(g[2], w[2]), CeilDiv(g[3], w[3])>>
  IN  CASE d = 1 -> <<r[1], 1, 1>>
        [] d = 2 -> <<r[o[1] + 1], r[o[2] + 1], 1>>
        [] d = 3 -> <<r[o[1] + 1], r[o[2] + 1], r[o[3] + 1]>>

\* C8: for positive extents and a launch order that permutes the axes, the
\* work-group count is the per-axis ceil_div values taken in launch order
\* (x only for dimension 1; z = 1 for dimension 2); for dimension 2 the order
\* [1,0] gives the x and y of the identity order swapped.
C8_WorkGroupsCount ==
  OrderOfAxes(geom.grid_dimension_, geom.work_group_launch_order_) =>
    LET d == geom.grid_dimension_
        g == geom.grid_size_
        o == geom.work_group_launch_order_
    IN  /\ geom.recalculated =>
             geom.work_groups_count_ = ExpectedCount(d, g, geom.work_group_size_, o)
        /\ \A i \in DOMAIN geom.dispatches :
             geom.dispatches[i].work_groups_count
               = ExpectedCount(d, g, geom.dispatches[i].work_group_size, o)
        /\ (geom.recalculated /\ d = 2 /\ o = <<1, 0, 2>>) =>
             LET id == ExpectedCount(2, g, geom.work_group_size_, <<0, 1, 2>>)
             IN  /\ geom.work_groups_count_[1] = id[2]
                 /\ geom.work_groups_count_[2] = id[1]

\* dimension 2, order [1,0], counts 3 and 1: the swap shows
C8_Witness ==
  /\ geom.recalculated /\ geom.grid_dimension_ = 2
  /\ geom.work_group_launch_order_ = <<1, 0, 2>>
  /\ geom.grid_size_ = <<3, 2, 1>> /\ geom.work_group_size_ = <<1, 2, 1>>
  /\ geom.work_groups_count_ = <<1, 3, 1>>
  /\ Len(geom.dispatches) = 2

-----------------------------------------------------------------------------
(* GetGridSize, with SetDst giving the operation its destination tensors.  *)

Policies == {"kCustom", "kWBToX_HDToY_SToZ", "kWBToX_HDToY_ZIs1",
             "kWBToX_HToY_DToZ", "kBToX_YIs1_ZIs1"}

Tensors ==
  {[Width |-> 10, Height |-> 1, Depth |-> 1, Slices |-> 2, Batch |-> 1],
   [Width |-> 2, Height |-> 3, Depth |-> 5, Slices |-> 7, Batch |-> 11]}
Nullptr == [Width |-> 0, Height |-> 0, Depth |-> 0, Slices |-> 0, Batch |-> 0]

\* the second policy with z taken from the tensor
GetGridSizeKeepsSlices(op) ==
  LET d == op.dst_[1]
  IN  IF op.elementwise_ \/ op.tensor_to_grid_ = "kWBToX_HDToY_SToZ"
        THEN <<d.Width * d.Batch, d.Height * d.Depth, d.Slices>>
      ELSE IF op.tensor_to_grid_ = "kWBToX_HDToY_ZIs1"
        THEN <<d.Width * d.Batch, d.Height * d.Depth, d.Slices>>
      ELSE IF op.tensor_to_grid_ = "kWBToX_HToY_DToZ"
        THEN <<d.Width * d.Batch, d.Height, d.Depth>>
      ELSE IF op.tensor_to_grid_ = "kBToX_YIs1_ZIs1"
        THEN <<d.Batch, 1, 1>>
      ELSE op.grid_size_

GetGridSize(op) ==
  LET d == op.dst_[1]
  IN  IF op.elementwise_ \/ op.tensor_to_grid_ = "kWBToX_HDToY_SToZ"
        THEN <<d.Width * d.Batch, d.Height * d.Depth, d.Slices>>
      ELSE IF op.tensor_to_grid_ = "kWBToX_HDToY_ZIs1"
        THEN <<d.Width * d.Batch, d.Height * d.Depth, 1>>
      ELSE IF op.tensor_to_grid_ = "kWBToX_HToY_DToZ"
        THEN <<d.Width * d.Batch, d.Height, d.Depth>>
      ELSE IF op.tensor_to_grid_ = "kBToX_YIs1_ZIs1"
        THEN <<d.Batch, 1, 1>>
      ELSE op.grid_size_

\* dst_.resize(index + 1, nullptr) when index is past the end; dst_[index] = ptr
SetDst(op, ptr, index) ==
  LET n == IF index >= Len(op.dst_) THEN index + 1 ELSE Len(op.dst_)
      grown == [i \in 1..n |-> IF i <= Len(op.dst_) THEN op.dst_[i] ELSE Nullptr]
  IN  [op EXCEPT !.dst_ = [grown EXCEPT ![index + 1] = ptr]]

\* GetGridSize dereferences dst_[0] unless it returns grid_size_
ReadsDst(op) == op.elementwise_ \/ op.tensor_to_grid_ # "kCustom"
HasDst(op) == Len(op.dst_) > 0 /\ op.dst_[1] # Nullptr

SetDstCall ==
  /\ ~gridq.crashed /\ gridq.sets < MaxSets
  /\ \E ptr \in Tensors, index \in 0..1 :
       gridq' = [gridq EXCEPT !.op = SetDst(@, ptr, index), !.sets = @ + 1]
  /\ UNCHANGED <<host, hist, geom, mv>>

\* without a first destination tensor the read of dst_[0] is out of bounds or
\* through a null pointer: the process ends, or the query returns anything
GetGridSizeCall ==
  /\ ~gridq.crashed
  /\ \/ /\ ReadsDst(gridq.op) => HasDst(gridq.op)
        /\ gridq' = [gridq EXCEPT !.result = GetGridSize(gridq.op), !.queried = TRUE]
     \/ /\ ReadsDst(gridq.op) /\ ~HasDst(gridq.op)
        /\ gridq' = [gridq EXCEPT !.crashed = TRUE]
     \/ /\ ReadsDst(gridq.op) /\ ~HasDst(gridq.op)
        /\ \E j \in JunkValues :
             gridq' = [gridq EXCEPT !.result = <<j, j, j>>, !.queried = TRUE]
  /\ UNCHANGED <<host, hist, geom, mv>>

InitGrid ==
  /\ \E e \in BOOLEAN, p \in Policies, g \in {<<4, 5, 6>>, <<1, 1, 1>>} :
       gridq = [op |-> [elementwise_ |-> e, tensor_to_grid_ |-> p,
                        grid_size_ |-> g, dst_ |-> <<>>],
                sets |-> 0, result |-> <<0, 0, 0>>, queried |-> FALSE,
                crashed |-> FALSE]
  /\ host = 0 /\ hist = 0 /\ geom = 0 /\ mv = 0

NextGrid == SetDstCall \/ GetGridSizeCall

SpecGrid == InitGrid /\ [][NextGrid]_vars

ExpectedGrid(op) ==
  LET d == op.dst_[1]
      first == <<d.Width * d.Batch, d.Height * d.Depth, d.Slices>>
  IN  IF op.elementwise_ THEN first
      ELSE CASE op.tensor_to_grid_ = "kWBToX_HDToY_SToZ" -> first
             [] op.tensor_to_grid_ = "kWBToX_HDToY_ZIs1" ->
                  <<d.Width * d.Batch, d.Height * d.Depth, 1>>
             [] op.tensor_to_grid_ = "kWBToX_HToY_DToZ" ->
                  <<d.Width * d.Batch, d.Height, d.Depth>>
             [] op.tensor_to_grid_ = "kBToX_YIs1_ZIs1" -> <<d.Batch, 1, 1>>
             [] OTHER -> op.grid_size_

ExampleTensor == [Width |-> 10, Height |-> 1, Depth |-> 1, Slices |-> 2, Batch |-> 1]

\* C9: GetGridSize maps the first destination tensor to the grid by policy, an
\* elementwise operation always by the first policy, and returns grid_size_
\* when no policy applies; it changes no field of the operation.  The example
\* tensor under the first policy gives (10, 1, 2).
C9_GridByPolicy ==
  [][GetGridSizeCall =>
       /\ (ReadsDst(gridq.op) => HasDst(gridq.op)) =>
            gridq'.result = ExpectedGrid(gridq.op)
       /\ gridq'.op = gridq.op
       /\ (HasDst(gridq.op) /\ gridq.op.dst_[1] = ExampleTensor
             /\ gridq.op.tensor_to_grid_ = "kWBToX_HDToY_SToZ") =>
            gridq'.result = <<10, 1, 2>>]_vars

\* the example was queried, and so was an elementwise operation whose
\* configured policy is another one
C9_Witness ==
  /\ gridq.queried /\ gridq.result = <<10, 1, 2>>
  /\ gridq.op.elementwise_ /\ gridq.op.tensor_to_grid_ = "kBToX_YIs1_ZIs1"
  /\ gridq.op.dst_[1] = ExampleTensor

-----------------------------------------------------------------------------
(* GPUOperation::operator=(GPUOperation&&) and the move constructor.       *)
(* The fields that own storage hold a tag naming their content; "" is the  *)
(* empty content.                                                          *)

Owned == {"args_", "code_", "compiler_options_", "definition_", "src_", "dst_",
          "src_tensors_names_", "dst_tensors_names_", "elementwise_code_"}
Swapped == {"work_group_size_", "grid_dimension_", "work_group_launch_order_",
            "grid_size_", "work_groups_count_", "linkable_count_"}
Copied == {"tensor_to_grid_", "elementwise_", "linkable_",
           "check_src_channels_size_", "flops_", "const_args_size_"}
Fields == Owned \cup Swapped \cup Copied

\* an operation whose owned content is `tag`, whose launch scalars are
\* derived from s and whose other scalars from c
MkOp(tag, s, c) ==
  [f \in Fields |->
     IF f \in Owned THEN tag \o "." \o f
     ELSE IF f \in Swapped THEN <<f, s>>
     ELSE <<f, c>>]

Objs == {"a", "b"}

\* target = std::move(source), the two distinct: the operation each of them
\* is afterwards.  A moved-from string, vector or registry holds nothing, or
\* (`swaps`, an implementation that exchanges) what the target held.
MoveAssignCopyingGrid(target, source, swaps) ==
  [target |-> [f \in Fields |-> source[f]],
   source |-> [f \in Fields |->
                 IF f \in Owned THEN (IF swaps THEN target[f] ELSE "")
                 ELSE IF f \in Swapped \ {"grid_size_"} THEN target[f]
                 ELSE source[f]]]

MoveAssign(target, source, swaps) ==
  [target |-> [f \in Fields |-> source[f]],
   source |-> [f \in Fields |->
                 IF f \in Owned THEN (IF swaps THEN target[f] ELSE "")
                 ELSE IF f \in Swapped THEN target[f]
                 ELSE source[f]]]

\* GPUOperation(GPUOperation&& operation): every scalar is copied
MoveConstruct(source) ==
  [target |-> [f \in Fields |-> source[f]],
   source |-> [f \in Fields |-> IF f \in Owned THEN "" ELSE source[f]]]

\* x = std::move(y)
MoveAssignCall(x, y) ==
  /\ mv.moves < MaxMoves
  /\ IF x = y
       THEN mv' = [mv EXCEPT !.moves = @ + 1]
       ELSE \E swaps \in BOOLEAN :
              LET r == MoveAssign(mv[x], mv[y], swaps)
              IN  mv' = [mv EXCEPT ![x] = r.target, ![y] = r.source, !.moves = @ + 1]
  /\ UNCHANGED <<host, hist, geom, gridq>>

\* x is destroyed and constructed anew from std::move(y)
MoveConstructCall(x, y) ==
  /\ mv.moves < MaxMoves /\ x # y
  /\ LET r == MoveConstruct(mv[y])
     IN  mv' = [mv EXCEPT ![x] = r.target, ![y] = r.source, !.moves = @ + 1]
  /\ UNCHANGED <<host, hist, geom, gridq>>

InitMove ==
  /\ \E sa, sb, ca, cb \in 1..MaxScalar :
       mv = [a |-> MkOp("p", sa, ca), b |-> MkOp("q", sb, cb), moves |-> 0]
  /\ host = 0 /\ hist = 0 /\ geom = 0 /\ gridq = 0

NextMove ==
  \/ \E x, y \in Objs : MoveAssignCall(x, y)
  \/ \E x, y \in Objs : MoveConstructCall(x, y)

SpecMove == InitMove /\ [][NextMove]_vars

\* the fields C10 names as transferred to the target
Transferred == {"args_", "code_", "src_tensors_names_", "dst_tensors_names_",
                "elementwise_code_"}
\* the six launch scalars C10 names as exchanged
Exchanged == {"work_group_size_", "grid_dimension_", "work_group_launch_order_",
              "grid_size_", "work_groups_count_", "linkable_count_"}

\* C10: after x = move(y) with x and y distinct, x holds y's former registry,
\* code, name lists and fused code and y's former six launch scalars, and y
\* holds x's former values of exactly those six scalars; a self-assignment
\* changes nothing.
C10_MoveAssignExchanges ==
  [][\A x, y \in Objs :
       MoveAssignCall(x, y) =>
         IF x = y
           THEN mv'.a = mv.a /\ mv'.b = mv.b
           ELSE /\ \A f \in Transferred \cup Exchanged : mv'[x][f] = mv[y][f]
                /\ \A f \in Exchanged : mv'[y][f] = mv[x][f]
                /\ \A f \in Fields \ (Exchanged \cup Owned) : mv'[y][f] = mv[y][f]]_vars

\* a = move(b) was made with launch scalars that differ
C10_Witness ==
  /\ mv.moves = 1
  /\ mv.a["code_"] = "q.code_" /\ mv.a["grid_size_"] = <<"grid_size_", 2>>
  /\ mv.b["grid_size_"] = <<"grid_size_", 1>>
  /\ mv.b["linkable_count_"] = <<"linkable_count_", 1>>
  /\ mv.b["flops_"] = <<"flops_", 2>>

====
